---------------------------- MODULE Spec2Model ----------------------------
(* The three request handlers of twelvety's serverless API                 *)
(*   validate      POST /api/validate            (functions/validate.js)     *)
(*   build         POST /api/build               (functions/build.js)        *)
(*   build-status  GET  /api/build/{id}/status   (functions/build-status.js) *)
(* together with the external state they read and write: the DynamoDB      *)
(* table of build records, the git refs and files of the GitHub            *)
(* repository, and the workflow runs of GitHub Actions.                    *)
(* Every await of a handler is one step, so that concurrent invocations    *)
(* interleave where the JavaScript event loop and the remote services let  *)
(* them.                                                                   *)
EXTENDS Integers, Sequences, FiniteSets, TLC

----------------------------------------------------------------------------
(* Bounds of the model *)

\* workflow runs the CI provider starts in one behaviour
MaxRuns == 2

\* concurrent invocations of the build handler
Dispatches == {"d1", "d2"}

\* values uuidv4() can return
BuildIds == {"b1", "b2"}

\* a build whose record, branch and run predate the behaviour (SpecExt only)
LegacyId == "b0"

AllIds == BuildIds \cup {LegacyId}

\* "undefined" is the value of a field the request body does not have
Markdowns == {"undefined", "", "m1", "m2"}
ProjectIds == {"undefined", "", "p1"}
NoSlug == "undefined"
Slugs == {NoSlug, "s1"}

----------------------------------------------------------------------------
(* Values *)

Undefined == "undefined"
Null == "null"

\* status values a stored record can carry; Undefined is a record without the field
Statuses == {"queued", "building", "completed", "failed"}

\* GitHub Actions: the conclusion of a completed workflow run
Conclusions == {"success", "failure", "cancelled", Null}

NoItem == [present |-> FALSE]

\* a variant that names the branch without the buildId
BranchNameShared(buildId) == <<"build", "b1">>

\* `build/${buildId}`
BranchName(buildId) == <<"build", buildId>>

\* `content/${projectId}/${slug}.md`
FilePath(projectId, slug) == <<"content", projectId, slug, ".md">>

\* a variant without the default
SlugOfNoDefault(slug) == slug

\* metadata?.slug || 'index'
SlugOf(slug) == IF slug = NoSlug THEN "index" ELSE slug

Branches == {BranchName(b) : b \in AllIds}

NoRef == "none"
NoFile == [present |-> FALSE]

VARIABLES
    \* process.env of the deployed functions
    tableName,      \* AWS_DYNAMODB_TABLE is set
    ghConfig,       \* (GITHUB_ORG || GITHUB_OWNER) && GITHUB_REPO are set
    \* external state
    table,          \* DynamoDB: buildId -> Item
    mainSha,        \* commit of refs/heads/main
    refs,           \* branch name -> commit, or NoRef
    files,          \* branch name -> the file committed on it by the service
    dispatched,     \* branches for which a workflow_dispatch event was accepted
    runs,           \* workflow runs of the repository, newest first
    usedIds,        \* values uuidv4() has returned
    \* build handler, per invocation
    bpc, breq, bid, bmainRef, bexisting, bresp,
    \* build-status handler (one client polling)
    spc, sid, sdata, sresp, slisted,
    \* the polling client: the last status it noted for the build it follows
    seen,
    \* what a fetch of the schema URL meets: the server's answer
    schemaRemote,
    \* validate handler
    vpc, vreq, vfetched, vschema, vcompiled, vresp

buildVars == <<bpc, breq, bid, bmainRef, bexisting, bresp>>
statusVars == <<spc, sid, sdata, sresp, slisted>>
clientVars == <<seen>>
validateVars == <<vpc, vreq, vfetched, vschema, vcompiled, vresp>>
envVars == <<tableName, ghConfig, schemaRemote>>
extVars == <<table, mainSha, refs, files, dispatched, runs, usedIds>>
vars == <<clientVars, envVars, extVars, buildVars, statusVars, validateVars>>


----------------------------------------------------------------------------
(* JavaScript helpers *)

\* a variant that tests for the absent value only
FalsyAbsentOnly(x) == x = Undefined \/ x = Null

\* !x for the values a request field can take
Falsy(x) == x = "" \/ x = Undefined \/ x = Null

Response(code, body) == [statusCode |-> code, body |-> body]

NoResponse == [statusCode |-> 0, body |-> [none |-> TRUE]]

\* the client has noted no status yet
NotSeen == "none"

----------------------------------------------------------------------------
(* Build Dispatcher: exports.handler of functions/build.js *)

Methods == {"POST", "GET", "OPTIONS"}

BuildBodies ==
    {[json |-> FALSE]} \cup
    {[json |-> TRUE, markdown |-> m, projectId |-> p, slug |-> s] :
        m \in Markdowns, p \in ProjectIds, s \in Slugs}

NoBody == [json |-> FALSE]

NoRequest == [httpMethod |-> "none", body |-> NoBody]

\* the events the build handler is invoked with
BuildRequests ==
    {[httpMethod |-> m, body |-> NoBody] : m \in Methods} \cup
    {[httpMethod |-> "POST", body |-> b] : b \in BuildBodies}

\* a variant that can return a value again
uuidNotFresh(used) == BuildIds

\* uuidv4(): a value no earlier call returned
uuidv4(used) == BuildIds \ used

\* the Item of dynamodb.put
PutItem(buildId, body) ==
    [present |-> TRUE,
     buildId |-> buildId,
     projectId |-> body.projectId,
     status |-> "queued",
     slug |-> SlugOf(body.slug),
     fileSize |-> IF body.markdown = "" THEN 0 ELSE 1]

\* a variant of the 500 body that carries the message only
BuildError500MessageOnly == Response(500, [message |-> "Build trigger failed"])

\* the catch block of the handler
BuildError500 == Response(500, [error |-> "Build trigger failed"])

BuildAccepted(d) ==
    Response(202,
        [status |-> "queued",
         buildId |-> bid[d],
         projectId |-> breq[d].body.projectId,
         branchName |-> BranchName(bid[d]),
         filePath |-> FilePath(breq[d].body.projectId, SlugOf(breq[d].body.slug))])

BuildFinish(d, resp) ==
    /\ bpc' = [bpc EXCEPT ![d] = "done"]
    /\ bresp' = [bresp EXCEPT ![d] = resp]

\* lines 30-61: method check, JSON.parse, required fields, buildId
BuildStart(d) ==
    /\ bpc[d] = "idle"
    /\ LET method == breq[d].httpMethod
           body == breq[d].body
       IN IF method = "OPTIONS" THEN
            /\ BuildFinish(d, Response(200, [empty |-> TRUE]))
            /\ UNCHANGED <<bid, usedIds>>
          ELSE IF method # "POST" THEN
            /\ BuildFinish(d, Response(405, [error |-> "Method not allowed"]))
            /\ UNCHANGED <<bid, usedIds>>
          ELSE IF ~body.json THEN
            /\ BuildFinish(d, BuildError500)
            /\ UNCHANGED <<bid, usedIds>>
          ELSE IF Falsy(body.markdown) \/ Falsy(body.projectId) THEN
            /\ BuildFinish(d, Response(400,
                    [error |-> "Missing required fields: markdown, projectId"]))
            /\ UNCHANGED <<bid, usedIds>>
          ELSE \E id \in uuidv4(usedIds) :
            /\ bid' = [bid EXCEPT ![d] = id]
            /\ usedIds' = usedIds \cup {id}
            /\ bpc' = [bpc EXCEPT ![d] = "put"]
            /\ UNCHANGED bresp
    /\ UNCHANGED <<clientVars, envVars, table, mainSha, refs, files, dispatched, runs,
                   breq, bmainRef, bexisting, statusVars, validateVars>>

\* a variant in which a failed put reaches the catch block of the handler
BuildPutFatal(d) ==
    /\ bpc[d] = "put"
    /\ \E ok \in BOOLEAN :
        /\ table' = IF tableName /\ ok
                      THEN [table EXCEPT ![bid[d]] = PutItem(bid[d], breq[d].body)]
                      ELSE table
        /\ IF ghConfig /\ (ok \/ ~tableName)
             THEN /\ bpc' = [bpc EXCEPT ![d] = "getRef"]
                  /\ UNCHANGED bresp
             ELSE BuildFinish(d, BuildError500)
    /\ UNCHANGED <<clientVars, envVars, mainSha, refs, files, dispatched, runs, usedIds,
                   breq, bid, bmainRef, bexisting, statusVars, validateVars>>

\* lines 63-93: best-effort dynamodb.put, then the GitHub configuration check
BuildPut(d) ==
    /\ bpc[d] = "put"
    /\ IF tableName
         THEN \E ok \in BOOLEAN :
                table' = IF ok THEN [table EXCEPT ![bid[d]] = PutItem(bid[d], breq[d].body)]
                               ELSE table
         ELSE table' = table
    /\ IF ghConfig
         THEN /\ bpc' = [bpc EXCEPT ![d] = "getRef"]
              /\ UNCHANGED bresp
         ELSE BuildFinish(d, BuildError500)
    /\ UNCHANGED <<clientVars, envVars, mainSha, refs, files, dispatched, runs, usedIds,
                   breq, bid, bmainRef, bexisting, statusVars, validateVars>>

\* a variant that deletes the record when the base commit cannot be resolved
BuildGetRefRollback(d) ==
    /\ bpc[d] = "getRef"
    /\ \E ok \in BOOLEAN :
        IF ok THEN /\ bmainRef' = [bmainRef EXCEPT ![d] = mainSha]
                   /\ bpc' = [bpc EXCEPT ![d] = "createRef"]
                   /\ UNCHANGED <<bresp, table>>
              ELSE /\ BuildFinish(d, BuildError500)
                   /\ table' = [table EXCEPT ![bid[d]] = NoItem]
                   /\ UNCHANGED bmainRef
    /\ UNCHANGED <<clientVars, envVars, mainSha, refs, files, dispatched, runs, usedIds,
                   breq, bid, bexisting, statusVars, validateVars>>

\* lines 95-102: octokit.git.getRef heads/main
BuildGetRef(d) ==
    /\ bpc[d] = "getRef"
    /\ \E ok \in BOOLEAN :
        IF ok THEN /\ bmainRef' = [bmainRef EXCEPT ![d] = mainSha]
                   /\ bpc' = [bpc EXCEPT ![d] = "createRef"]
                   /\ UNCHANGED bresp
              ELSE /\ BuildFinish(d, BuildError500)
                   /\ UNCHANGED bmainRef
    /\ UNCHANGED <<clientVars, envVars, extVars, breq, bid, bexisting, statusVars, validateVars>>

\* lines 104-112: octokit.git.createRef refs/heads/build/{buildId}
BuildCreateRef(d) ==
    /\ bpc[d] = "createRef"
    /\ \E ok \in BOOLEAN :
        IF ok /\ refs[BranchName(bid[d])] = NoRef
          THEN /\ refs' = [refs EXCEPT ![BranchName(bid[d])] = bmainRef[d]]
               /\ bpc' = [bpc EXCEPT ![d] = "getContent"]
               /\ UNCHANGED bresp
          ELSE /\ BuildFinish(d, BuildError500)
               /\ UNCHANGED refs
    /\ bmainRef' = [bmainRef EXCEPT ![d] = Null]     \* not read again
    /\ UNCHANGED <<clientVars, envVars, table, mainSha, files, dispatched, runs, usedIds,
                   breq, bid, bexisting, statusVars, validateVars>>

\* lines 114-129: octokit.repos.getContent; a failure means "no such file"
BuildGetContent(d) ==
    /\ bpc[d] = "getContent"
    /\ \E found \in BOOLEAN :
        bexisting' = [bexisting EXCEPT ![d] = IF found THEN "sha" ELSE Null]
    /\ bpc' = [bpc EXCEPT ![d] = "commit"]
    /\ UNCHANGED <<clientVars, envVars, extVars, breq, bid, bmainRef, bresp,
                   statusVars, validateVars>>

\* a variant that treats the commit as best effort, like the dispatch after it
BuildCommitBestEffort(d) ==
    /\ bpc[d] = "commit"
    /\ \E ok \in BOOLEAN :
        files' = IF ok /\ refs[BranchName(bid[d])] # NoRef
                   THEN [files EXCEPT ![BranchName(bid[d])] =
                            [present |-> TRUE,
                             path |-> FilePath(breq[d].body.projectId,
                                               SlugOf(breq[d].body.slug)),
                             content |-> breq[d].body.markdown]]
                   ELSE files
    /\ bpc' = [bpc EXCEPT ![d] = "dispatch"]
    /\ bexisting' = [bexisting EXCEPT ![d] = Null]
    /\ UNCHANGED <<clientVars, envVars, table, mainSha, refs, dispatched, runs, usedIds,
                   breq, bid, bmainRef, bresp, statusVars, validateVars>>

\* lines 131-145: octokit.repos.createOrUpdateFileContents on the new branch
BuildCommit(d) ==
    /\ bpc[d] = "commit"
    /\ \E ok \in BOOLEAN :
        IF ok /\ refs[BranchName(bid[d])] # NoRef
          THEN /\ files' = [files EXCEPT ![BranchName(bid[d])] =
                    [present |-> TRUE,
                     path |-> FilePath(breq[d].body.projectId, SlugOf(breq[d].body.slug)),
                     content |-> breq[d].body.markdown]]
               /\ bpc' = [bpc EXCEPT ![d] = "dispatch"]
               /\ UNCHANGED bresp
          ELSE /\ BuildFinish(d, BuildError500)
               /\ UNCHANGED files
    /\ bexisting' = [bexisting EXCEPT ![d] = Null]   \* not read again
    /\ UNCHANGED <<clientVars, envVars, table, mainSha, refs, dispatched, runs, usedIds,
                   breq, bid, bmainRef, statusVars, validateVars>>

\* a variant in which a failed workflow dispatch reaches the catch block
BuildWorkflowDispatchFatal(d) ==
    /\ bpc[d] = "dispatch"
    /\ \E ok \in BOOLEAN :
        IF ok THEN /\ dispatched' = dispatched \cup {BranchName(bid[d])}
                   /\ BuildFinish(d, BuildAccepted(d))
              ELSE /\ dispatched' = dispatched
                   /\ BuildFinish(d, BuildError500)
    /\ UNCHANGED <<clientVars, envVars, table, mainSha, refs, files, runs, usedIds,
                   breq, bid, bmainRef, bexisting, statusVars, validateVars>>

\* lines 147-184: best-effort createWorkflowDispatch, then the 202 response
BuildWorkflowDispatch(d) ==
    /\ bpc[d] = "dispatch"
    /\ \E ok \in BOOLEAN :
        dispatched' = IF ok THEN dispatched \cup {BranchName(bid[d])} ELSE dispatched
    /\ BuildFinish(d, BuildAccepted(d))
    /\ UNCHANGED <<clientVars, envVars, table, mainSha, refs, files, runs, usedIds,
                   breq, bid, bmainRef, bexisting, statusVars, validateVars>>

BuildStep(d) ==
    \/ BuildStart(d)
    \/ BuildPut(d)
    \/ BuildGetRef(d)
    \/ BuildCreateRef(d)
    \/ BuildGetContent(d)
    \/ BuildCommit(d)
    \/ BuildWorkflowDispatch(d)


----------------------------------------------------------------------------
(* GitHub Actions and the repository, as far as the handlers observe them *)

MainBranch == <<"main">>

RunBranches == Branches \cup {MainBranch}

BranchExists(br) == IF br = MainBranch THEN TRUE ELSE refs[br] # NoRef

\* a push to a branch, or an accepted workflow_dispatch, starts a run
CIStart(br) ==
    /\ Len(runs) < MaxRuns
    /\ BranchExists(br)
    /\ runs' = <<[head_branch |-> br, status |-> "queued", conclusion |-> Null]>> \o runs
    /\ UNCHANGED <<clientVars, envVars, table, mainSha, refs, files, dispatched, usedIds,
                   buildVars, statusVars, validateVars>>

CIProgress(i) ==
    /\ runs[i].status = "queued"
    /\ runs' = [runs EXCEPT ![i].status = "in_progress"]
    /\ UNCHANGED <<clientVars, envVars, table, mainSha, refs, files, dispatched, usedIds,
                   buildVars, statusVars, validateVars>>

CIComplete(i, c) ==
    /\ runs[i].status # "completed"
    /\ runs' = [runs EXCEPT ![i].status = "completed", ![i].conclusion = c]
    /\ UNCHANGED <<clientVars, envVars, table, mainSha, refs, files, dispatched, usedIds,
                   buildVars, statusVars, validateVars>>

\* the commits heads/main points to, in order
BaseCommits == <<"c1", "c2">>

\* someone pushes to main while a dispatch is under way
MainPush ==
    /\ mainSha = BaseCommits[1]
    /\ mainSha' = BaseCommits[2]
    /\ UNCHANGED <<clientVars, envVars, table, refs, files, dispatched, runs, usedIds,
                   buildVars, statusVars, validateVars>>

\* the provider running workflows on the given branches
CIStep(branches) ==
    \/ \E br \in branches : CIStart(br)
    \/ \E i \in 1..Len(runs) : CIProgress(i)
    \/ \E i \in 1..Len(runs), c \in Conclusions : CIComplete(i, c)

----------------------------------------------------------------------------
(* Status Reconciler: exports.handler of functions/build-status.js *)

\* per_page of listWorkflowRunsForRepo
PerPage == 50

\* event.path.split('/'): the paths the status handler is invoked with
StatusPaths == {<<"", "">>} \cup {<<"", "build-status", b>> : b \in AllIds}

StatusRequests ==
    {[httpMethod |-> m, path |-> <<"", "">>] : m \in Methods} \cup
    {[httpMethod |-> "GET", path |-> p] : p \in StatusPaths}

\* event.path.split('/').filter(p => p).pop()
PathBuildId(path) ==
    LET kept == SelectSeq(path, LAMBDA p : p # "")
    IN IF kept = <<>> THEN Undefined ELSE kept[Len(kept)]

\* a variant that lists every run of the repository
ListedRunsAll(rs) == rs

\* workflows.data.workflow_runs: the newest per_page runs
ListedRuns(rs) == SubSeq(rs, 1, IF Len(rs) < PerPage THEN Len(rs) ELSE PerPage)

NoWorkflow == [status |-> "unknown", conclusion |-> Null, url |-> Null]

\* workflow_runs.find(w => w.head_branch === branchName), lines 252-262
FindWorkflow(listed, branchName) ==
    LET hits == {i \in 1..Len(listed) : listed[i].head_branch = branchName}
    IN IF hits = {} THEN NoWorkflow
       ELSE LET i == CHOOSE j \in hits : \A k \in hits : j <= k
            IN [status |-> listed[i].status,
                conclusion |-> listed[i].conclusion,
                url |-> "html_url"]

\* a variant that fails a build on the conclusion "failure" alone
FinalStatusFailureOnly(buildData, workflow) ==
    IF workflow.status = "completed"
      THEN (IF workflow.conclusion = "failure" THEN "failed" ELSE "completed")
    ELSE IF workflow.status = "in_progress"
      THEN "building"
    ELSE IF Falsy(buildData.status) THEN "queued" ELSE buildData.status

\* a variant whose fallback is the literal 'queued'
FinalStatusIgnoresStored(buildData, workflow) ==
    IF workflow.status = "completed"
      THEN (IF workflow.conclusion = "success" THEN "completed" ELSE "failed")
    ELSE IF workflow.status = "in_progress"
      THEN "building"
    ELSE "queued"

\* lines 268-274
FinalStatus(buildData, workflow) ==
    IF workflow.status = "completed"
      THEN (IF workflow.conclusion = "success" THEN "completed" ELSE "failed")
    ELSE IF workflow.status = "in_progress"
      THEN "building"
    ELSE IF Falsy(buildData.status) THEN "queued" ELSE buildData.status

\* lines 289-312
StatusOk(buildId, buildData, workflow) ==
    Response(200,
        [buildId |-> buildId,
         projectId |-> buildData.projectId,
         status |-> FinalStatus(buildData, workflow),
         slug |-> buildData.slug,
         fileSize |-> buildData.fileSize,
         workflow |-> workflow])

StatusNotFound == Response(404, [error |-> "Build not found"])

StatusFinish(resp) ==
    /\ spc' = "done"
    /\ sresp' = resp

\* a variant that reconciles from the workflow listing alone when no table
\* is configured
StatusStartWithoutTable ==
    /\ spc = "idle"
    /\ \E event \in StatusRequests :
        LET buildId == PathBuildId(event.path) IN
        IF event.httpMethod = "OPTIONS" THEN
            /\ StatusFinish(Response(200, [empty |-> TRUE]))
            /\ UNCHANGED <<sid, sdata>>
        ELSE IF event.httpMethod # "GET" THEN
            /\ StatusFinish(Response(405, [error |-> "Method not allowed"]))
            /\ UNCHANGED <<sid, sdata>>
        ELSE IF Falsy(buildId) THEN
            /\ StatusFinish(Response(400, [error |-> "Build ID required"]))
            /\ UNCHANGED <<sid, sdata>>
        ELSE IF tableName THEN
            /\ sid' = buildId
            /\ spc' = "get"
            /\ UNCHANGED <<sresp, sdata>>
        ELSE
            /\ sid' = buildId
            /\ sdata' = [present |-> TRUE, buildId |-> buildId,
                         projectId |-> Undefined, status |-> Undefined,
                         slug |-> Undefined, fileSize |-> 0]
            /\ IF ghConfig
                 THEN /\ spc' = "list"
                      /\ UNCHANGED sresp
                 ELSE StatusFinish(StatusOk(buildId, sdata', NoWorkflow))
    /\ UNCHANGED <<clientVars, envVars, extVars, buildVars, slisted, validateVars>>

\* lines 189-215: method check, buildId from the path
StatusStart ==
    /\ spc = "idle"
    /\ \E event \in StatusRequests :
        LET buildId == PathBuildId(event.path) IN
        IF event.httpMethod = "OPTIONS" THEN
            /\ StatusFinish(Response(200, [empty |-> TRUE]))
            /\ UNCHANGED sid
        ELSE IF event.httpMethod # "GET" THEN
            /\ StatusFinish(Response(405, [error |-> "Method not allowed"]))
            /\ UNCHANGED sid
        ELSE IF Falsy(buildId) THEN
            /\ StatusFinish(Response(400, [error |-> "Build ID required"]))
            /\ UNCHANGED sid
        ELSE IF tableName THEN
            /\ sid' = buildId
            /\ spc' = "get"
            /\ UNCHANGED sresp
        ELSE
            /\ sid' = buildId
            /\ StatusFinish(StatusNotFound)
    /\ UNCHANGED <<clientVars, envVars, extVars, buildVars, sdata, slisted, validateVars>>

\* a variant that goes on to the workflow listing without a record
StatusGetFallback ==
    /\ spc = "get"
    /\ \E ok \in BOOLEAN :
        LET buildData == IF ok THEN table[sid] ELSE NoItem IN
        /\ sdata' = IF buildData.present THEN buildData
                    ELSE [present |-> TRUE, buildId |-> sid, projectId |-> Undefined,
                          status |-> Undefined, slug |-> Undefined, fileSize |-> 0]
        /\ IF ghConfig
             THEN /\ spc' = "list"
                  /\ UNCHANGED sresp
             ELSE StatusFinish(StatusOk(sid, sdata', NoWorkflow))
    /\ UNCHANGED <<clientVars, envVars, extVars, buildVars, sid, slisted, validateVars>>

\* a variant in which a failed get reaches the outer catch block
StatusGetUncaught(ok) ==
    /\ spc = "get"
    /\ LET buildData == table[sid] IN
        IF ~ok THEN
            /\ StatusFinish(Response(500, [error |-> "Status check failed"]))
            /\ UNCHANGED sdata
        ELSE IF ~buildData.present THEN
            /\ StatusFinish(StatusNotFound)
            /\ UNCHANGED sdata
        ELSE IF ghConfig THEN
            /\ sdata' = buildData
            /\ spc' = "list"
            /\ UNCHANGED sresp
        ELSE
            /\ sdata' = buildData
            /\ StatusFinish(StatusOk(sid, buildData, NoWorkflow))
    /\ UNCHANGED <<clientVars, envVars, extVars, buildVars, sid, slisted, validateVars>>

\* lines 213-241: dynamodb.get answers (ok) or throws; a failed get leaves
\* buildData null
StatusGetOutcome(ok) ==
    /\ spc = "get"
    /\ LET buildData == IF ok THEN table[sid] ELSE NoItem IN
        IF ~buildData.present THEN
            /\ StatusFinish(StatusNotFound)
            /\ UNCHANGED sdata
        ELSE IF ghConfig THEN
            /\ sdata' = buildData
            /\ spc' = "list"
            /\ UNCHANGED sresp
        ELSE
            /\ sdata' = buildData
            /\ StatusFinish(StatusOk(sid, buildData, NoWorkflow))
    /\ UNCHANGED <<clientVars, envVars, extVars, buildVars, sid, slisted, validateVars>>

\* lines 216-241: dynamodb.get; a failed get leaves buildData null
StatusGet == \E ok \in BOOLEAN : StatusGetOutcome(ok)

\* a variant that stores the reconciled status back into the record
StatusListWriteBack ==
    /\ spc = "list"
    /\ \E ok \in BOOLEAN :
        LET workflow == IF ok THEN FindWorkflow(ListedRuns(runs), BranchName(sid))
                              ELSE NoWorkflow
        IN /\ StatusFinish(StatusOk(sid, sdata, workflow))
           /\ table' = [table EXCEPT ![sid].status = FinalStatus(sdata, workflow)]
    /\ slisted' = TRUE
    /\ UNCHANGED <<clientVars, envVars, mainSha, refs, files, dispatched, runs, usedIds,
                   buildVars, sid, sdata, validateVars>>

\* a variant in which a failed listing reaches the outer catch block
StatusListUncaught(ok) ==
    /\ spc = "list"
    /\ IF ok THEN StatusFinish(StatusOk(sid, sdata,
                        FindWorkflow(ListedRuns(runs), BranchName(sid))))
             ELSE StatusFinish(Response(500, [error |-> "Status check failed"]))
    /\ slisted' = TRUE
    /\ UNCHANGED <<clientVars, envVars, extVars, buildVars, sid, sdata, validateVars>>

\* lines 243-312: listWorkflowRunsForRepo answers (ok) or throws; a failed
\* listing leaves "unknown"
StatusListOutcome(ok) ==
    /\ spc = "list"
    /\ LET workflow == IF ok THEN FindWorkflow(ListedRuns(runs), BranchName(sid))
                              ELSE NoWorkflow
       IN StatusFinish(StatusOk(sid, sdata, workflow))
    /\ slisted' = TRUE
    /\ UNCHANGED <<clientVars, envVars, extVars, buildVars, sid, sdata, validateVars>>

\* lines 243-312: listWorkflowRunsForRepo; a failed listing leaves "unknown"
StatusList == \E ok \in BOOLEAN : StatusListOutcome(ok)

\* the client polls again
StatusAgain ==
    /\ spc = "done"
    /\ spc' = "idle"
    /\ sid' = Undefined
    /\ sdata' = NoItem
    /\ sresp' = NoResponse
    /\ slisted' = FALSE
    /\ UNCHANGED <<clientVars, envVars, extVars, buildVars, validateVars>>

StatusStep ==
    \/ StatusStart
    \/ StatusGet
    \/ StatusList
    \/ StatusAgain

\* the other branches of the repository: a page of runs on main has started
\* and completed since the newest run of the list
CIOtherRuns ==
    /\ Len(runs) < PerPage
    /\ runs' = [i \in 1..PerPage |->
                    [head_branch |-> MainBranch, status |-> "completed",
                     conclusion |-> "success"]] \o runs
    /\ UNCHANGED <<clientVars, envVars, table, mainSha, refs, files, dispatched,
                   usedIds, buildVars, statusVars, validateVars>>

\* the client notes the status it read for the build of dispatch d
ClientNote(d) ==
    /\ spc = "done"
    /\ sresp.statusCode = 200
    /\ "status" \in DOMAIN sresp.body
    /\ sid = bid[d]
    /\ seen # sresp.body.status
    /\ seen' = sresp.body.status
    /\ UNCHANGED <<envVars, extVars, buildVars, statusVars, validateVars>>


----------------------------------------------------------------------------
(* Validator: exports.handler of functions/validate.js *)

\* longest body enumerated character by character
MaxLen == 3

\* const readingTime = Math.ceil(wordCount / 200)
WordsPerMinute == 200

\* characters of a body; " " and "\n" match \s
Chars == {"a", "#", " ", "\n"}

IsSpace(c) == c = " " \/ c = "\n"

\* n words of one character, each followed by a space
Words(n) == [i \in 1..(2 * n) |-> IF i % 2 = 1 THEN "a" ELSE " "]

\* word counts around the multiples of WordsPerMinute
LongCounts == {WordsPerMinute - 1, WordsPerMinute, WordsPerMinute + 1,
               2 * WordsPerMinute, 2 * WordsPerMinute + 1}

Strings(n) == UNION {[1..k -> Chars] : k \in 0..n}

\* the bodies of the documented example requests: "# Hi" and "# Content"
ExampleBodies == {<<"#", " ", "H", "i">>,
                  <<"#", " ", "C", "o", "n", "t", "e", "n", "t">>}

Contents == Strings(MaxLen) \cup {Words(n) : n \in LongCounts} \cup ExampleBodies

\* the fields of a metadata object and the values they take
Fields == {"title", "layout"}
Absent == "absent"
FieldValues == {Absent, "text", "number"}
DataObjects == [Fields -> FieldValues]
EmptyData == [f \in Fields |-> Absent]

\* a document: no metadata block, a block that is not valid YAML, or a block
\* that parses to a metadata object; content is the text after the block
Documents ==
    {[front |-> "none", data |-> EmptyData, content |-> c] : c \in Contents} \cup
    {[front |-> "bad", data |-> EmptyData, content |-> c] : c \in Contents} \cup
    {[front |-> "yaml", data |-> d, content |-> c] : d \in DataObjects, c \in Contents}

\* the empty string is the document without a block and without content
IsEmptyText(doc) == doc.front = "none" /\ doc.content = <<>>

\* gray-matter: matter(markdown) throws on a block that is not valid YAML
matter(doc) ==
    IF doc.front = "bad"
      THEN [threw |-> TRUE, message |-> "YAMLException", data |-> EmptyData,
            content |-> <<>>]
      ELSE [threw |-> FALSE, message |-> "", data |-> doc.data,
            content |-> doc.content]

\* a JSON Schema: required fields and fields that must be strings;
\* wellFormed = FALSE is JSON that ajv.compile rejects
NoSchema == [wellFormed |-> FALSE, required |-> {}, strings |-> {}]

Schemas ==
    {NoSchema} \cup
    {[wellFormed |-> TRUE, required |-> r, strings |-> t] :
        r \in SUBSET Fields, t \in SUBSET Fields}

\* what fetch(schemaUrl) and schemaResponse.json() can meet
FetchOutcomes ==
    {[kind |-> k, schema |-> NoSchema] :
        k \in {"network-error", "not-ok", "not-json"}} \cup
    {[kind |-> "ok", schema |-> sc] : sc \in Schemas}

NotFetched == [kind |-> "none", schema |-> NoSchema]

\* a fixed order of the fields, for the order of the errors array
FieldOrder == <<"layout", "title">>

RequiredError(f) ==
    [instancePath |-> "", schemaPath |-> "#/required", keyword |-> "required",
     params |-> f, message |-> "must have required property"]

TypeError(f) ==
    [instancePath |-> f, schemaPath |-> "#/properties/type", keyword |-> "type",
     params |-> "string", message |-> "must be string"]

\* the violations of schema by data, in checking order
Violations(schema, data) ==
    LET req == SelectSeq(FieldOrder,
                   LAMBDA f : f \in schema.required /\ data[f] = Absent)
        typ == SelectSeq(FieldOrder,
                   LAMBDA f : f \in schema.strings /\ data[f] = "number")
    IN [i \in 1..Len(req) |-> RequiredError(req[i])] \o
       [i \in 1..Len(typ) |-> TypeError(typ[i])]

\* a variant with Ajv's default, which stops at the first violation
allErrorsOff == FALSE

\* new Ajv({ allErrors: true })
allErrors == TRUE

\* validate(frontmatter): validate.errors holds every violation under allErrors,
\* only the first one otherwise
AjvErrors(schema, data) ==
    LET all == Violations(schema, data)
    IN IF allErrors \/ all = <<>> THEN all ELSE <<all[1]>>

\* validate.errors.map(err => ({path, message, keyword, params})), lines 115-120
ErrorEntry(err) ==
    [path |-> IF err.instancePath # "" THEN err.instancePath ELSE err.schemaPath,
     message |-> err.message,
     keyword |-> err.keyword,
     params |-> err.params]

MapErrors(errs) == [i \in 1..Len(errs) |-> ErrorEntry(errs[i])]

\* content.split(/\s+/): the pieces between the maximal runs of whitespace;
\* a leading or trailing run leaves an empty piece, and "" splits to [""]
Split(s) ==
    LET n == Len(s)
        index == [i \in 1..n |-> i]
        starts == SelectSeq(index,
                    LAMBDA i : /\ ~IsSpace(s[i])
                               /\ (IF i = 1 THEN TRUE ELSE IsSpace(s[i - 1])))
        EndOf(i) == CHOOSE j \in i..n :
                        /\ \A k \in i..j : ~IsSpace(s[k])
                        /\ (IF j = n THEN TRUE ELSE IsSpace(s[j + 1]))
        pieces == [k \in 1..Len(starts) |-> SubSeq(s, starts[k], EndOf(starts[k]))]
        lead == IF n = 0 THEN <<<<>>>>
                ELSE IF IsSpace(s[1]) THEN <<<<>>>> ELSE <<>>
        trail == IF n > 0 THEN (IF IsSpace(s[n]) THEN <<<<>>>> ELSE <<>>) ELSE <<>>
    IN lead \o pieces \o trail

\* a variant without the filter of empty pieces
WordCountUnfiltered(content) == Len(Split(content))

\* content.split(/\s+/).filter(w => w.length > 0).length
WordCount(content) == Len(SelectSeq(Split(content), LAMBDA w : Len(w) > 0))

\* Math.ceil(wordCount / 200)
ReadingTime(wordCount) ==
    (wordCount + WordsPerMinute - 1) \div WordsPerMinute

\* the events the validate handler is invoked with; schemaUrl is present or not
ValidateBodies ==
    {[json |-> TRUE, markdown |-> doc, schemaUrl |-> u] :
        doc \in Documents, u \in BOOLEAN}

NoDocument == [front |-> "none", data |-> EmptyData, content |-> <<>>]

NoValidateBody == [json |-> FALSE, markdown |-> NoDocument, schemaUrl |-> FALSE]

ValidateRequests ==
    {[httpMethod |-> m, body |-> NoValidateBody] : m \in Methods} \cup
    {[httpMethod |-> "POST", body |-> b] : b \in ValidateBodies}

\* a variant in which the parse error reaches the outer catch block
FrontmatterErrorUncaught(message) ==
    Response(500, [error |-> "Internal server error", message |-> message])

\* lines 69-82
FrontmatterError(message) ==
    Response(422,
        [status |-> "invalid",
         errors |-> <<[path |-> "frontmatter",
                       message |-> "Invalid YAML frontmatter syntax",
                       line |-> 1,
                       details |-> message]>>])

\* a variant that reports the failed fetch as a validation failure
SchemaFetchErrorAsInvalid(kind) ==
    Response(422,
        [status |-> "invalid",
         errors |-> <<[path |-> "schema", message |-> "Failed to fetch schema",
                       keyword |-> "schema", params |-> kind]>>])

\* lines 95-102
SchemaFetchError(kind) ==
    Response(400, [error |-> "Failed to fetch schema", details |-> kind])

\* lines 110-122
SchemaInvalid(errs) ==
    Response(422, [status |-> "invalid", errors |-> MapErrors(errs)])

\* lines 150-159
ValidateError500 == Response(500, [error |-> "Internal server error"])

\* lines 126-149; hasImages and hasCode are left out: no character of Chars
\* can make them true
ValidateOk(parsed) ==
    Response(200,
        [status |-> "valid",
         frontmatter |-> parsed.data,
         content |-> parsed.content,
         preview |-> <<"html", parsed.content>>,
         metadata |->
            [wordCount |-> WordCount(parsed.content),
             readingTime |-> ReadingTime(WordCount(parsed.content)),
             contentLength |-> Len(parsed.content)]])

ValidateFinish(resp) ==
    /\ vpc' = "done"
    /\ vresp' = resp

\* lines 34-89: up to the fetch of the schema, or to the response without one
ValidateStart ==
    /\ vpc = "idle"
    /\ LET method == vreq.httpMethod
           body == vreq.body
           parsed == matter(body.markdown)
       IN
       IF method = "OPTIONS" THEN
            /\ ValidateFinish(Response(200, [empty |-> TRUE]))
            /\ UNCHANGED vfetched
       ELSE IF method # "POST" THEN
            /\ ValidateFinish(Response(405, [error |-> "Method not allowed"]))
            /\ UNCHANGED vfetched
       ELSE IF ~body.json THEN
            /\ ValidateFinish(ValidateError500)
            /\ UNCHANGED vfetched
       ELSE IF IsEmptyText(body.markdown) THEN
            /\ ValidateFinish(Response(400, [error |-> "Missing markdown content"]))
            /\ UNCHANGED vfetched
       ELSE IF parsed.threw THEN
            /\ ValidateFinish(FrontmatterError(parsed.message))
            /\ UNCHANGED vfetched
       ELSE IF body.schemaUrl THEN
            /\ vfetched' = TRUE
            /\ vpc' = "fetch"
            /\ UNCHANGED vresp
       ELSE
            /\ ValidateFinish(ValidateOk(parsed))
            /\ UNCHANGED vfetched
    /\ UNCHANGED <<clientVars, envVars, extVars, buildVars, statusVars, vreq, vschema, vcompiled>>

\* lines 89-149: the schema arrives or not, then compile, validate, respond
ValidateFetch ==
    /\ vpc = "fetch"
    /\ LET outcome == schemaRemote
           parsed == matter(vreq.body.markdown)
           errs == AjvErrors(outcome.schema, parsed.data)
       IN
        /\ vschema' = outcome
        /\ IF outcome.kind # "ok" THEN
                /\ ValidateFinish(SchemaFetchError(outcome.kind))
                /\ UNCHANGED vcompiled
           ELSE IF ~outcome.schema.wellFormed THEN
                /\ vcompiled' = TRUE
                /\ ValidateFinish(ValidateError500)
           ELSE IF errs # <<>> THEN
                /\ vcompiled' = TRUE
                /\ ValidateFinish(SchemaInvalid(errs))
           ELSE
                /\ vcompiled' = TRUE
                /\ ValidateFinish(ValidateOk(parsed))
    /\ UNCHANGED <<clientVars, envVars, extVars, buildVars, statusVars, vreq, vfetched>>

ValidateStep ==
    \/ ValidateStart
    \/ ValidateFetch

----------------------------------------------------------------------------
(* Initial states *)

InitEnv ==
    /\ tableName \in BOOLEAN
    /\ ghConfig \in BOOLEAN

\* no table and no repository configured: the validate handler reads neither
InitNoEnv ==
    /\ tableName = FALSE
    /\ ghConfig = FALSE

InitBuild(requests) ==
    /\ bpc = [d \in Dispatches |-> "idle"]
    /\ breq \in [Dispatches -> requests]
    /\ bid = [d \in Dispatches |-> Undefined]
    /\ bmainRef = [d \in Dispatches |-> Null]
    /\ bexisting = [d \in Dispatches |-> Null]
    /\ bresp = [d \in Dispatches |-> NoResponse]

InitStatus ==
    /\ spc = "idle"
    /\ sid = Undefined
    /\ sdata = NoItem
    /\ sresp = NoResponse
    /\ slisted = FALSE
    /\ seen = NotSeen

InitValidate(requests, remotes) ==
    /\ vpc = "idle"
    /\ vreq \in requests
    /\ schemaRemote \in (IF vreq.body.schemaUrl THEN remotes ELSE {NotFetched})
    /\ vfetched = FALSE
    /\ vschema = NotFetched
    /\ vcompiled = FALSE
    /\ vresp = NoResponse

\* nothing stored, no build branch, no run
InitExternal ==
    /\ table = [b \in AllIds |-> NoItem]
    /\ mainSha = "c1"
    /\ refs = [br \in Branches |-> NoRef]
    /\ files = [br \in Branches |-> NoFile]
    /\ dispatched = {}
    /\ runs = <<>>
    /\ usedIds = {}

\* records any writer of the table can have left under LegacyId
LegacyItems ==
    {NoItem} \cup
    {[present |-> TRUE, buildId |-> LegacyId, projectId |-> "p1", status |-> st,
      slug |-> "index", fileSize |-> 1] : st \in Statuses \cup {Undefined}}

\* a table, a branch and a file that predate the behaviour
InitLegacy ==
    /\ \E item \in LegacyItems : table = [b \in AllIds |-> IF b = LegacyId THEN item ELSE NoItem]
    /\ mainSha = "c1"
    /\ refs = [br \in Branches |-> IF br = BranchName(LegacyId) THEN "c1" ELSE NoRef]
    /\ files = [br \in Branches |->
                    IF br = BranchName(LegacyId)
                      THEN [present |-> TRUE, path |-> FilePath("p1", "index"),
                            content |-> "m1"]
                      ELSE NoFile]
    /\ dispatched = {}
    /\ runs = <<>>
    /\ usedIds = {}

\* one request the validate handler checks against a schema
SampleValidateRequests ==
    {[httpMethod |-> "POST",
      body |-> [json |-> TRUE,
                markdown |-> [front |-> "yaml", data |-> EmptyData,
                              content |-> <<"a">>],
                schemaUrl |-> TRUE]]}

\* a schema URL that answers with a schema requiring the title
SampleRemotes ==
    {[kind |-> "ok",
      schema |-> [wellFormed |-> TRUE, required |-> {"title"}, strings |-> {}]]}

\* one request the build handler accepts
SampleBuildRequests ==
    {[httpMethod |-> "POST",
      body |-> [json |-> TRUE, markdown |-> "m1", projectId |-> "p1",
                slug |-> NoSlug]]}

----------------------------------------------------------------------------
(* Specifications *)

\* the whole service: one dispatch, the CI provider running the build
\* branches, a polling client and a validate request
Init ==
    /\ InitEnv
    /\ InitExternal
    /\ InitBuild(SampleBuildRequests)
    /\ InitStatus
    /\ InitValidate(SampleValidateRequests, SampleRemotes)

Next ==
    \/ BuildStep("d1")
    \/ CIStep(Branches)
    \/ StatusStep
    \/ ValidateStep

Spec == Init /\ [][Next]_vars

\* concurrent dispatches against the table and the repository, whose main
\* branch can move meanwhile
NextDispatch ==
    \/ \E d \in Dispatches : BuildStep(d)
    \/ MainPush

InitDispatch ==
    /\ InitEnv
    /\ InitExternal
    /\ InitBuild(BuildRequests)
    /\ InitStatus
    /\ InitValidate(SampleValidateRequests, SampleRemotes)

SpecDispatch == InitDispatch /\ [][NextDispatch]_vars

\* polling a build whose record was written by any writer of the table, in a
\* repository whose other branches run workflows too
InitExt ==
    /\ InitEnv
    /\ InitLegacy
    /\ InitBuild(SampleBuildRequests)
    /\ InitStatus
    /\ InitValidate(SampleValidateRequests, SampleRemotes)

NextExt ==
    \/ CIStep(RunBranches)
    \/ StatusStep

SpecExt == InitExt /\ [][NextExt]_vars

\* the validate handler on every request
InitValidator ==
    /\ InitNoEnv
    /\ InitExternal
    /\ InitBuild(SampleBuildRequests)
    /\ InitStatus
    /\ InitValidate(ValidateRequests, FetchOutcomes)

NextValidate == ValidateStep

SpecValidate == InitValidator /\ [][NextValidate]_vars

\* the state a dispatch leaves behind when every call succeeded: the record
\* stored, the branch at main's commit, the file on it, the 202 returned
InitAccepted ==
    /\ tableName = TRUE
    /\ ghConfig = TRUE
    /\ InitValidate(SampleValidateRequests, SampleRemotes)
    /\ InitStatus
    /\ bpc = [d \in Dispatches |-> IF d = "d1" THEN "done" ELSE "idle"]
    /\ breq \in [Dispatches -> SampleBuildRequests]
    /\ bid = [d \in Dispatches |-> IF d = "d1" THEN "b1" ELSE Undefined]
    /\ bmainRef = [d \in Dispatches |-> Null]
    /\ bexisting = [d \in Dispatches |-> Null]
    /\ bresp = [d \in Dispatches |-> IF d = "d1" THEN BuildAccepted(d) ELSE NoResponse]
    /\ table = [b \in AllIds |->
                    IF b = "b1" THEN PutItem("b1", breq["d1"].body) ELSE NoItem]
    /\ mainSha = BaseCommits[1]
    /\ refs = [br \in Branches |->
                    IF br = BranchName("b1") THEN BaseCommits[1] ELSE NoRef]
    /\ files = [br \in Branches |->
                    IF br = BranchName("b1")
                      THEN [present |-> TRUE,
                            path |-> FilePath(breq["d1"].body.projectId,
                                              SlugOf(breq["d1"].body.slug)),
                            content |-> breq["d1"].body.markdown]
                      ELSE NoFile]
    /\ dispatched = {BranchName("b1")}
    /\ runs = <<>>
    /\ usedIds = {"b1"}

\* a client following an accepted build through successive polls, while
\* the provider runs workflows on its branch and on other branches
NextPolls ==
    \/ CIStep({BranchName(bid["d1"])})
    \/ CIOtherRuns
    \/ StatusStep
    \/ ClientNote("d1")

SpecPolls == InitAccepted /\ [][NextPolls]_vars

\* requests that take the validate handler to each of its responses
ErrorValidateRequests ==
    {r \in ValidateRequests :
        /\ r.body.markdown.content \in {<<>>, <<"a">>}
        /\ r.body.markdown.data \in {EmptyData, [f \in Fields |-> "text"]}}

\* a schema URL that fails, answers with JSON that is no schema, or answers
\* with a schema requiring the title
ErrorRemotes ==
    {[kind |-> "not-ok", schema |-> NoSchema],
     [kind |-> "ok", schema |-> NoSchema]} \cup SampleRemotes

\* the three handlers on requests of every kind: one dispatch, a polling
\* client and a validate request
InitErrors ==
    /\ InitEnv
    /\ InitExternal
    /\ InitBuild(BuildRequests)
    /\ breq["d2"] \in SampleBuildRequests
    /\ InitStatus
    /\ InitValidate(ErrorValidateRequests, ErrorRemotes)

NextErrors ==
    \/ BuildStep("d1")
    \/ StatusStep
    \/ ValidateStep

SpecErrors == InitErrors /\ [][NextErrors]_vars

----------------------------------------------------------------------------
(* Properties of the Status Reconciler *)

\* a step in which the polling client receives its answer
PollAnswered == spc # "done" /\ spc' = "done"

\* the listed runs on the branch of build id, by position
RunsOf(id) == {i \in 1..Len(ListedRuns(runs)) : runs[i].head_branch = BranchName(id)}

\* the first listed run on the branch of build id
IsMatchedRun(i, id) == i \in RunsOf(id) /\ \A j \in RunsOf(id) : i <= j

\* C1: for a buildId with a stored record, the workflow part of the answer is
\* the first listed run on build/{buildId}; when that run is completed the
\* reported status is completed for the conclusion success and failed for
\* every other conclusion, and when it is in_progress the reported status is
\* building, whatever status the stored record carries.
C1_LiveStatusWins ==
    [][(PollAnswered /\ sresp'.statusCode = 200 /\ sid' \in AllIds) =>
        LET w == sresp'.body.workflow
            reported == sresp'.body.status
        IN /\ w.status # "unknown" =>
                \E i \in RunsOf(sid') :
                    /\ IsMatchedRun(i, sid')
                    /\ w.status = runs[i].status
                    /\ w.conclusion = runs[i].conclusion
           /\ w.status = "completed" /\ w.conclusion = "success"
                => reported = "completed"
           /\ w.status = "completed" /\ w.conclusion # "success"
                => reported = "failed"
           /\ w.status = "in_progress" => reported = "building"]_vars

\* C1 witness: the stored record says completed, the matched run was
\* cancelled, and the answer is failed
C1_Witness ==
    /\ spc = "done"
    /\ sresp.statusCode = 200
    /\ sid = LegacyId
    /\ sdata.status = "completed"
    /\ sresp.body.workflow.status = "completed"
    /\ sresp.body.workflow.conclusion = "cancelled"
    /\ sresp.body.status = "failed"

\* C2: a poll for a buildId without a stored record is answered 404 'Build
\* not found' in every state of the workflow runs, also when a run on
\* build/{buildId} exists, and the handler never goes on to list the
\* workflow runs for it.
C2_NoRecordIs404 ==
    [][/\ (PollAnswered /\ sid' \in AllIds /\ ~table[sid'].present) =>
            /\ sresp' = Response(404, [error |-> "Build not found"])
            /\ slisted' = FALSE
       /\ (spc' = "list" /\ spc # "list") => table[sid'].present]_vars

\* C2 witness: a 404 for a build whose run on build/{buildId} has completed
C2_Witness ==
    /\ spc = "done"
    /\ sresp.statusCode = 404
    /\ sid \in BuildIds
    /\ ~table[sid].present
    /\ \E i \in 1..Len(runs) :
        /\ runs[i].head_branch = BranchName(sid)
        /\ runs[i].status = "completed"
        /\ runs[i].conclusion = "success"

\* C3: for a buildId with a stored record, when no listed run is on
\* build/{buildId}, or the first such run is neither completed nor
\* in_progress, the reported status is the stored record's status field, and
\* queued when the record has no such field.
C3_FallbackToStored ==
    [][(PollAnswered /\ sresp'.statusCode = 200 /\ sid' \in AllIds) =>
        LET stored == table[sid'].status
            other == \A i \in RunsOf(sid') :
                        IsMatchedRun(i, sid') =>
                            runs[i].status \notin {"completed", "in_progress"}
        IN other => sresp'.body.status = IF stored = Undefined THEN "queued" ELSE stored]_vars

\* C3 witness: the matched run is still queued and the answer repeats the
\* stored status failed
C3_Witness ==
    /\ spc = "done"
    /\ sresp.statusCode = 200
    /\ sid = LegacyId
    /\ table[sid].status = "failed"
    /\ sresp.body.workflow.status = "queued"
    /\ sresp.body.status = "failed"

----------------------------------------------------------------------------
(* Properties of the Build Dispatcher and of the stored records *)

\* the dispatches that got as far as generating a buildId
Started == {d \in Dispatches : bid[d] # Undefined}

\* C4: a dispatch whose record is not stored (the put failed, or no table is
\* configured) goes on to the repository steps when the repository is
\* configured, and when its branch and file were then written it answers 202
\* with status queued, its buildId, and branchName build/{buildId}.
C4_AcceptedWithoutRecord ==
    [][\A d \in Dispatches :
        /\ (/\ bpc[d] = "put"
            /\ bpc'[d] # "put"
            /\ ghConfig
            /\ ~table'[bid[d]].present) => bpc'[d] = "getRef"
        /\ (/\ bpc[d] # "done"
            /\ bpc'[d] = "done"
            /\ bid[d] # Undefined
            /\ ~table'[bid[d]].present
            /\ files'[BranchName(bid[d])].present) =>
                /\ bresp'[d].statusCode = 202
                /\ bresp'[d].body.status = "queued"
                /\ bresp'[d].body.buildId = bid[d]
                /\ bresp'[d].body.branchName = <<"build", bid[d]>>]_vars

\* C4 witness: a table is configured, the put failed, the answer is 202
C4_Witness ==
    \E d \in Started :
        /\ tableName
        /\ bpc[d] = "done"
        /\ ~table[bid[d]].present
        /\ bresp[d].statusCode = 202

\* C5: two dispatches never share a buildId, and so neither a record key nor
\* a branch name, also when their markdown, projectId and metadata are equal;
\* the buildId and branchName of two 202 answers differ.
C5_DistinctBuildIds ==
    \A d, e \in Started :
        d # e =>
            /\ bid[d] # bid[e]
            /\ BranchName(bid[d]) # BranchName(bid[e])
            /\ (bresp[d].statusCode = 202 /\ bresp[e].statusCode = 202) =>
                    /\ bresp[d].body.buildId # bresp[e].body.buildId
                    /\ bresp[d].body.branchName # bresp[e].body.branchName

\* C5 witness: two accepted dispatches of the same request
C5_Witness ==
    /\ breq["d1"] = breq["d2"]
    /\ bresp["d1"].statusCode = 202
    /\ bresp["d2"].statusCode = 202

\* C6: a stored record never changes and is never removed, every stored
\* record has status queued, and no step of the status or validate handler
\* changes the table.
C6_RecordsImmutable ==
    [][/\ \A b \in AllIds : table[b].present => table'[b] = table[b]
       /\ \A b \in AllIds : table'[b].present => table'[b].status = "queued"
       /\ (statusVars' # statusVars \/ validateVars' # validateVars)
            => table' = table]_vars

\* C6 witness: the answer is completed while the stored record says queued
C6_Witness ==
    /\ spc = "done"
    /\ sid \in AllIds
    /\ sresp.statusCode = 200
    /\ sresp.body.status = "completed"
    /\ table[sid].status = "queued"
    /\ vpc = "done"

----------------------------------------------------------------------------
(* Properties of the Validator *)

\* the request is a POST whose body parses as JSON, so that the handler gets
\* as far as the markdown
ValidateReaches == vreq.httpMethod = "POST" /\ vreq.body.json

\* C7: a document whose metadata block is not valid YAML is answered 422 with
\* the single error entry of the frontmatter (path frontmatter, message
\* 'Invalid YAML frontmatter syntax') carrying the parser's message, with or
\* without a schemaUrl, and the schema is never fetched.
C7_FrontmatterSyntax422 ==
    (ValidateReaches /\ vreq.body.markdown.front = "bad") =>
        /\ vpc \in {"idle", "done"}
        /\ ~vfetched
        /\ ~vcompiled
        /\ vpc = "done" =>
            /\ vresp.statusCode = 422
            /\ vresp.body.status = "invalid"
            /\ Len(vresp.body.errors) = 1
            /\ vresp.body.errors[1].path = "frontmatter"
            /\ vresp.body.errors[1].message = "Invalid YAML frontmatter syntax"
            /\ vresp.body.errors[1].details = matter(vreq.body.markdown).message

\* C7 witness: such a document submitted with a schemaUrl, answered 422
C7_Witness ==
    /\ ValidateReaches
    /\ vreq.body.markdown.front = "bad"
    /\ vreq.body.schemaUrl
    /\ vpc = "done"
    /\ vresp.statusCode = 422

\* C8: when the schema of a request with a schemaUrl cannot be fetched or
\* parsed, the schema is never compiled or run, and the answer is the 400
\* 'Failed to fetch schema' with an error field and no errors array, not the
\* 422 of a validation failure.
C8_SchemaFetchAborts ==
    (vpc = "done" /\ vfetched /\ vschema.kind # "ok") =>
        /\ ~vcompiled
        /\ vresp.statusCode = 400
        /\ vresp.statusCode # 422
        /\ "error" \in DOMAIN vresp.body
        /\ vresp.body.error = "Failed to fetch schema"
        /\ "errors" \notin DOMAIN vresp.body
        /\ "status" \notin DOMAIN vresp.body

\* C8 witness: the fetch failed for a document without any metadata field,
\* which every schema with a required field rejects
C8_Witness ==
    /\ vpc = "done"
    /\ vfetched
    /\ vschema.kind = "not-ok"
    /\ vreq.body.markdown.data = EmptyData
    /\ vresp.statusCode = 400

\* the constraints of schema that data violates: a required field that is
\* missing, a string field that holds a number
MissingFields(schema, data) == {f \in schema.required : data[f] = Absent}
MistypedFields(schema, data) == {f \in schema.strings : data[f] = "number"}

\* C9: when the metadata violates N > 0 constraints of the fetched schema, the
\* answer is 422 with an errors array of N entries, one per violated
\* constraint, each with path, message, keyword and params; the path is the
\* instance path, or the schema path where the instance path is empty.
C9_EveryViolationReported ==
    (vpc = "done" /\ vschema.kind = "ok" /\ vschema.schema.wellFormed) =>
        LET data == vreq.body.markdown.data
            missing == MissingFields(vschema.schema, data)
            mistyped == MistypedFields(vschema.schema, data)
            N == Cardinality(missing) + Cardinality(mistyped)
        IN N > 0 =>
            /\ vresp.statusCode = 422
            /\ Len(vresp.body.errors) >= N
            /\ Len(vresp.body.errors) = N
            /\ \A f \in missing :
                \E i \in 1..N :
                    /\ vresp.body.errors[i].keyword = "required"
                    /\ vresp.body.errors[i].params = f
                    /\ vresp.body.errors[i].path = "#/required"
            /\ \A f \in mistyped :
                \E i \in 1..N :
                    /\ vresp.body.errors[i].keyword = "type"
                    /\ vresp.body.errors[i].path = f
            /\ \A i \in 1..N :
                DOMAIN vresp.body.errors[i] = {"path", "message", "keyword", "params"}

\* C9 witness: a missing required field and a mistyped field, two entries
C9_Witness ==
    /\ vpc = "done"
    /\ vschema.kind = "ok"
    /\ vresp.statusCode = 422
    /\ Len(vresp.body.errors) = 2
    /\ vresp.body.errors[1].keyword = "required"
    /\ vresp.body.errors[2].keyword = "type"

\* the words of a text: the positions where a run of non-whitespace ends
WordEnds(s) ==
    {i \in 1..Len(s) :
        /\ ~IsSpace(s[i])
        /\ (IF i = Len(s) THEN TRUE ELSE IsSpace(s[i + 1]))}

----------------------------------------------------------------------------
(* C11 *)

\* the documented example: a valid metadata block, a body that is one
\* heading line, and no schemaUrl
IsExampleRequest ==
    /\ ValidateReaches
    /\ vreq.body.markdown.front = "yaml"
    /\ vreq.body.markdown.content \in ExampleBodies
    /\ ~vreq.body.schemaUrl

\* C11: the example document, a valid metadata block followed by the single
\* heading line "# Hi" (or "# Content") and sent without schemaUrl, is
\* answered 200 with metadata.wordCount = 1.
C11_HeadingCountsOneWord ==
    (vpc = "done" /\ IsExampleRequest) =>
        /\ vresp.statusCode = 200
        /\ vresp.body.metadata.wordCount = 1

----------------------------------------------------------------------------
(* C12 *)

\* the responses the three handlers have returned
HasField(resp, f) == f \in DOMAIN resp.body

\* the original reading: every error response carries an error field
HasErrorField(resp) ==
    resp.statusCode \in {400, 404, 405, 422, 500} => HasField(resp, "error")

\* the shape the handlers give their error responses
ErrorShape(resp) ==
    /\ resp.statusCode \in {400, 404, 405, 500} => HasField(resp, "error")
    /\ resp.statusCode = 422 =>
            /\ ~HasField(resp, "error")
            /\ HasField(resp, "status") /\ resp.body.status = "invalid"
            /\ HasField(resp, "errors") /\ Len(resp.body.errors) >= 1

\* C12 as stated: every response of the three handlers with code 400, 404,
\* 405, 422 or 500 has an error field, and the response for a schema
\* violation has an errors array as well.
C12_EveryErrorHasErrorField ==
    /\ \A d \in Dispatches : HasErrorField(bresp[d])
    /\ HasErrorField(sresp)
    /\ HasErrorField(vresp)
    /\ (vresp.statusCode = 422 /\ vcompiled) => HasField(vresp, "errors")

\* C12 amended: every response with code 400, 404, 405 or 500 has an error
\* field; a 422 response (metadata syntax error or schema violation) has no
\* error field: it carries status "invalid" and a non-empty errors array.
C12_ErrorResponseShape ==
    /\ \A d \in Dispatches : ErrorShape(bresp[d])
    /\ ErrorShape(sresp)
    /\ ErrorShape(vresp)

\* C12 witness: the dispatch failed with 500, the poll was answered 404 and
\* the validation found a schema violation
C12_Witness ==
    /\ bresp["d1"].statusCode = 500
    /\ sresp.statusCode = 404
    /\ vresp.statusCode = 422
    /\ vcompiled
    /\ Len(vresp.body.errors) = 1

----------------------------------------------------------------------------
(* Properties of the Build Dispatcher's repository steps *)

\* the dispatches that hold a buildId and have not returned
InFlight == {d \in Dispatches : bpc[d] \notin {"idle", "done"}}

\* the positions a dispatch can move to from a position, in the order of
\* the handler: put, getRef, createRef, getContent, commit, dispatch
Successors(pc) ==
    CASE pc = "idle" -> {"put", "done"}
      [] pc = "put" -> {"getRef", "done"}
      [] pc = "getRef" -> {"createRef", "done"}
      [] pc = "createRef" -> {"getContent", "done"}
      [] pc = "getContent" -> {"commit"}
      [] pc = "commit" -> {"dispatch", "done"}
      [] pc = "dispatch" -> {"done"}
      [] pc = "done" -> {}

\* what the repository holds for the branch of a buildId
NoBranchFor(id) == refs[BranchName(id)] = NoRef
NoFileFor(id) == ~files[BranchName(id)].present
NoDispatchFor(id) == BranchName(id) \notin dispatched

\* C13: the required repository steps run in the order resolve base commit,
\* create branch, write file; a failure of any of them, or a missing
\* repository configuration, ends the request with 500 and no later step
\* runs: a failed resolution leaves no branch, a failed branch creation
\* leaves no branch and no commit, and none of the failures is followed by
\* a workflow dispatch or a 202.
C13_RequiredStepsAbort ==
    /\ [](\A d \in Dispatches :
            (bpc[d] = "done" /\ bresp[d].statusCode = 500 /\ bid[d] # Undefined) =>
                /\ NoFileFor(bid[d])
                /\ NoDispatchFor(bid[d]))
    /\ [][\A d \in Dispatches :
            /\ bpc'[d] # bpc[d] => bpc'[d] \in Successors(bpc[d])
            /\ d \in InFlight =>
                LET id == bid[d]
                    br == BranchName(id)
                IN
                /\ (bpc[d] # "dispatch" /\ bpc'[d] = "done") =>
                        /\ bresp'[d].statusCode = 500
                        /\ refs'[br] = refs[br]
                        /\ files'[br] = files[br]
                        /\ br \notin dispatched'
                        /\ bpc[d] \in {"put", "getRef", "createRef"} => refs'[br] = NoRef
                        /\ ~files'[br].present
                /\ (bpc[d] = "put" /\ ~ghConfig /\ bpc'[d] # "put") => bpc'[d] = "done"
                /\ bpc'[d] = "createRef" => bmainRef'[d] \in {mainSha, bmainRef[d]} \ {Null}
                /\ bpc'[d] \in {"getContent", "commit"} => refs'[br] # NoRef
                /\ bpc'[d] = "dispatch" => refs'[br] # NoRef /\ files'[br].present
                /\ refs'[br] # refs[br] => bpc[d] = "createRef" /\ bmainRef[d] # Null
                /\ files'[br] # files[br] => bpc[d] = "commit" /\ refs[br] # NoRef
                /\ (br \in dispatched' /\ br \notin dispatched) =>
                        bpc[d] = "dispatch" /\ files[br].present
                /\ bresp'[d].statusCode = 202 => bpc[d] = "dispatch"
       ]_vars

\* C13 witness: one dispatch failed before its branch existed, the other
\* failed at the commit on its branch; both were answered 500
C13_Witness ==
    /\ ghConfig
    /\ \A d \in Dispatches :
            bpc[d] = "done" /\ bresp[d].statusCode = 500 /\ bid[d] # Undefined
    /\ NoBranchFor(bid["d1"])
    /\ ~NoBranchFor(bid["d2"]) /\ NoFileFor(bid["d2"]) /\ NoDispatchFor(bid["d2"])

----------------------------------------------------------------------------
(* C14 *)

\* the 202 body of a dispatch, written out field by field
AcceptedBody(d) ==
    [status |-> "queued",
     buildId |-> bid[d],
     projectId |-> breq[d].body.projectId,
     branchName |-> <<"build", bid[d]>>,
     filePath |-> <<"content", breq[d].body.projectId,
                    IF breq[d].body.slug = NoSlug THEN "index" ELSE breq[d].body.slug,
                    ".md">>]

\* C14: once the branch exists and the file is committed, the explicit
\* workflow dispatch is best effort: whether it succeeds or fails, the
\* request is answered 202 with status queued and the same buildId,
\* branchName and filePath, and the branch and the file stay as they are.
C14_DispatchFailureNotFatal ==
    [][\A d \in Dispatches :
        (bpc[d] = "dispatch" /\ bpc'[d] # "dispatch") =>
            LET br == BranchName(bid[d]) IN
            /\ bpc'[d] = "done"
            /\ bresp'[d].statusCode = 202
            /\ bresp'[d].body = AcceptedBody(d)
            /\ br \notin dispatched' => bresp'[d].statusCode = 202
            /\ refs'[br] = refs[br] /\ refs[br] # NoRef
            /\ files'[br] = files[br] /\ files[br].present
      ]_vars

\* C14 witness: a request answered 202 whose workflow dispatch failed, next
\* to one answered 202 whose workflow dispatch succeeded
C14_Witness ==
    /\ \A d \in Dispatches : bpc[d] = "done" /\ bresp[d].statusCode = 202
    /\ NoDispatchFor(bid["d1"])
    /\ ~NoDispatchFor(bid["d2"])
    /\ bresp["d1"].body.status = "queued"

----------------------------------------------------------------------------
(* C15 *)

\* the status a poll reports for a record when no workflow data is at hand
StoredStatus(item) == IF item.status = Undefined THEN "queued" ELSE item.status

\* C15: a failed external query of the Status Reconciler never gives a 500.
\* A failed workflow listing counts as no data: for a stored record the
\* answer is 200 with workflow.status "unknown", conclusion and url null,
\* and the status of the stored record. A failed storage lookup counts as
\* no record: the answer is the 404 a missing record gets.
C15_QueryFailuresAreNoData ==
    /\ [](sresp.statusCode # 500)
    /\ [][(StatusListOutcome(FALSE) =>
                /\ table[sid].present
                /\ sresp'.statusCode = 200
                /\ sresp'.body.workflow =
                        [status |-> "unknown", conclusion |-> Null, url |-> Null]
                /\ sresp'.body.status = StoredStatus(table[sid])
                /\ sresp'.body.buildId = sid)
           /\ (StatusGetOutcome(FALSE) =>
                /\ spc' = "done"
                /\ sresp' = Response(404, [error |-> "Build not found"]))
           /\ ((StatusGetOutcome(TRUE) /\ ~table[sid].present) =>
                /\ spc' = "done"
                /\ sresp' = Response(404, [error |-> "Build not found"]))
       ]_vars

\* C15 witness: the record is stored as building and its branch has a
\* completed run, yet the poll was answered 200 with an unknown workflow
\* and the stored status
C15_Witness ==
    /\ spc = "done"
    /\ slisted
    /\ sid = LegacyId
    /\ table[LegacyId].present /\ table[LegacyId].status = "building"
    /\ Len(runs) = 1
    /\ runs[1].head_branch = BranchName(LegacyId) /\ runs[1].status = "completed"
    /\ sresp.statusCode = 200
    /\ sresp.body.workflow.status = "unknown"
    /\ sresp.body.status = "building"

----------------------------------------------------------------------------
(* C16 *)

\* the dispatch was answered 202 and no record is stored under its buildId
AcceptedUnrecorded(d) ==
    /\ bpc[d] = "done"
    /\ bresp[d].statusCode = 202
    /\ ~table[bid[d]].present

\* C16: when a dispatch was answered 202 and its record was not persisted
\* (the put failed, or no table is configured), the record stays missing and
\* every poll for that buildId is answered 404, whatever the state of the
\* workflow run on build/{buildId}: the client never reads building or
\* completed for that build.
C16_UnrecordedBuildIs404 ==
    /\ []((AcceptedUnrecorded("d1") /\ spc = "done" /\ sid = bid["d1"]) =>
                /\ sresp.statusCode = 404
                /\ "status" \notin DOMAIN sresp.body)
    /\ [][AcceptedUnrecorded("d1") =>
            /\ AcceptedUnrecorded("d1")'
            /\ (PollAnswered /\ sid' = bid["d1"]) =>
                    sresp' = Response(404, [error |-> "Build not found"])
       ]_vars

\* C16 witness: the table is configured but the put failed, the dispatch was
\* answered 202, the run on its branch has completed with success, and the
\* poll for its buildId was answered 404
C16_Witness ==
    /\ tableName
    /\ AcceptedUnrecorded("d1")
    /\ Len(runs) >= 1
    /\ runs[1].head_branch = BranchName(bid["d1"])
    /\ runs[1].status = "completed" /\ runs[1].conclusion = "success"
    /\ spc = "done"
    /\ sid = bid["d1"]
    /\ sresp.statusCode = 404

----------------------------------------------------------------------------
(* C17 *)

\* both dispatches carry a complete request for the same projectId and slug
SameTarget ==
    /\ \A d \in Dispatches :
            /\ breq[d].httpMethod = "POST"
            /\ breq[d].body.json
            /\ ~Falsy(breq[d].body.markdown)
            /\ ~Falsy(breq[d].body.projectId)
    /\ breq["d1"].body.projectId = breq["d2"].body.projectId
    /\ breq["d1"].body.slug = breq["d2"].body.slug

\* the file a dispatch writes
OwnFile(d) ==
    [present |-> TRUE,
     path |-> <<"content", breq[d].body.projectId, SlugOf(breq[d].body.slug), ".md">>,
     content |-> breq[d].body.markdown]

\* the dispatches that hold a buildId
WithBuildId == {d \in Dispatches : bid[d] # Undefined}

\* C17: two dispatches for the same projectId and slug, interleaved in any
\* way, do not get in each other's way: they hold different buildIds, so
\* different branches; the branch creation and the commit of each can
\* succeed in every state the other can be in; a step of one leaves the
\* branch and the file of the other as they are; the file on a dispatch's
\* branch is the one that dispatch wrote; both can be answered 202.
C17_ConcurrentDispatchesIndependent ==
    /\ [](SameTarget =>
            /\ \A d, e \in WithBuildId : d # e => BranchName(bid[d]) # BranchName(bid[e])
            /\ \A d \in WithBuildId :
                /\ bpc[d] = "createRef" =>
                        ENABLED (BuildCreateRef(d) /\ bpc'[d] = "getContent")
                /\ bpc[d] = "commit" =>
                        ENABLED (BuildCommit(d) /\ bpc'[d] = "dispatch")
                /\ bpc[d] = "dispatch" =>
                        ENABLED (BuildWorkflowDispatch(d) /\ bresp'[d].statusCode = 202)
                /\ (bpc[d] = "dispatch" \/ bresp[d].statusCode = 202) =>
                        /\ refs[BranchName(bid[d])] # NoRef
                        /\ files[BranchName(bid[d])] = OwnFile(d))
    /\ [][SameTarget =>
            \A d \in WithBuildId : \A e \in Dispatches \ {d} :
                bpc'[e] # bpc[e] =>
                    /\ refs'[BranchName(bid[d])] = refs[BranchName(bid[d])]
                    /\ files'[BranchName(bid[d])] = files[BranchName(bid[d])]
       ]_vars

\* C17 witness: both dispatches, for the same projectId and slug and with
\* different markdown, were answered 202, each with its own text on its own
\* branch
C17_Witness ==
    /\ SameTarget
    /\ breq["d1"].body.markdown # breq["d2"].body.markdown
    /\ \A d \in Dispatches :
            /\ bpc[d] = "done"
            /\ bresp[d].statusCode = 202
            /\ files[BranchName(bid[d])] = OwnFile(d)
    /\ bresp["d1"].body.filePath = bresp["d2"].body.filePath
    /\ bresp["d1"].body.branchName # bresp["d2"].body.branchName

----------------------------------------------------------------------------
(* C18 *)

\* a POST with a JSON body whose markdown or projectId is absent or empty
MissingRequired(d) ==
    /\ breq[d].httpMethod = "POST"
    /\ breq[d].body.json
    /\ \/ breq[d].body.markdown \in {"undefined", ""}
       \/ breq[d].body.projectId \in {"undefined", ""}

\* C18: a request whose markdown or projectId is absent or empty is answered
\* 400 in one step that changes nothing outside the handler: no buildId is
\* drawn, no record written, no branch created, no file committed and no
\* workflow dispatched, then or later.
C18_MissingFieldsTouchNothing ==
    /\ [](\A d \in Dispatches :
            (MissingRequired(d) /\ bpc[d] # "idle") =>
                /\ bpc[d] = "done"
                /\ bresp[d] = Response(400,
                        [error |-> "Missing required fields: markdown, projectId"])
                /\ bid[d] = Undefined)
    /\ [][\A d \in Dispatches :
            (MissingRequired(d) /\ bpc'[d] # bpc[d]) =>
                /\ bpc[d] = "idle"
                /\ bresp'[d].statusCode = 400
                /\ bid'[d] = Undefined
                /\ usedIds' = usedIds
                /\ table' = table
                /\ refs' = refs
                /\ files' = files
                /\ dispatched' = dispatched
                /\ runs' = runs /\ mainSha' = mainSha
       ]_vars

\* C18 witness: a request with empty markdown and a request without
\* projectId were both answered 400, and the table, the repository and the
\* set of drawn buildIds are as they were at the start
C18_Witness ==
    /\ tableName /\ ghConfig
    /\ breq["d1"].body.json /\ breq["d1"].body.markdown = ""
    /\ breq["d1"].body.projectId = "p1"
    /\ breq["d2"].body.json /\ breq["d2"].body.markdown = "m1"
    /\ breq["d2"].body.projectId = "undefined"
    /\ \A d \in Dispatches : bpc[d] = "done" /\ bresp[d].statusCode = 400
    /\ usedIds = {}
    /\ \A b \in AllIds : ~table[b].present
    /\ \A br \in Branches : refs[br] = NoRef /\ ~files[br].present
    /\ dispatched = {}

----------------------------------------------------------------------------
(* C19 *)

\* the commits heads/main has pointed to so far
MainHistory == {BaseCommits[1], mainSha}

\* C19: a dispatch answered 202 with buildId b has by then created the
\* branch build/b at the commit it resolved for the base branch and
\* committed the whole markdown of the request at
\* content/{projectId}/{slug}.md on that branch, with slug "index" when the
\* request names none; the 202 is sent only from a state in which the file
\* is there, and its filePath and branchName name that file and branch.
C19_AcceptedMeansCommitted ==
    /\ [](\A d \in Dispatches :
            bresp[d].statusCode = 202 =>
                LET b == bresp[d].body.buildId
                    br == <<"build", b>>
                    path == <<"content", breq[d].body.projectId,
                              IF breq[d].body.slug = NoSlug THEN "index"
                                                            ELSE breq[d].body.slug,
                              ".md">>
                IN
                /\ b = bid[d]
                /\ refs[br] \in MainHistory
                /\ files[br] = [present |-> TRUE, path |-> path,
                                content |-> breq[d].body.markdown]
                /\ bresp[d].body.branchName = br
                /\ bresp[d].body.filePath = path)
    /\ [][\A d \in WithBuildId :
            LET br == <<"build", bid[d]>> IN
            /\ (bpc[d] = "getRef" /\ bpc'[d] = "createRef") => bmainRef'[d] = mainSha
            /\ (bpc[d] = "createRef" /\ bpc'[d] = "getContent") =>
                    refs[br] = NoRef /\ refs'[br] = bmainRef[d]
            /\ refs[br] # NoRef => refs'[br] = refs[br]
            /\ files[br].present => files'[br] = files[br]
            /\ (bresp[d].statusCode # 202 /\ bresp'[d].statusCode = 202) =>
                    files[br].present /\ files[br].content = breq[d].body.markdown
       ]_vars

\* C19 witness: a request without slug was answered 202; main moved on
\* after the base commit was resolved, so the branch sits at the commit
\* resolved, and index.md on it holds the markdown
C19_Witness ==
    /\ bresp["d1"].statusCode = 202
    /\ breq["d1"].body.slug = NoSlug
    /\ mainSha = BaseCommits[2]
    /\ refs[BranchName(bid["d1"])] = BaseCommits[1]
    /\ files[BranchName(bid["d1"])].path = <<"content", "p1", "index", ".md">>
    /\ files[BranchName(bid["d1"])].content = "m2"
    /\ bresp["d1"].body.filePath = <<"content", "p1", "index", ".md">>

----------------------------------------------------------------------------
(* C20 *)

\* the dispatch drew a buildId, stored its record and was answered 500
FailedWithRecord(d) ==
    /\ bpc[d] = "done"
    /\ bresp[d].statusCode = 500
    /\ bid[d] # Undefined
    /\ table[bid[d]].present

\* a poll for the buildId of the dispatch is answered, its lookup having
\* found the record
PollFinds(d) ==
    /\ PollAnswered
    /\ sid' = bid[d]
    /\ ~StatusGetOutcome(FALSE)

\* C20 as stated: a dispatch that ended in 500 leaves its record stored with
\* status queued, and a poll for its buildId is answered 200 with status
\* queued.
C20_FailedDispatchPollsQueued ==
    /\ [](FailedWithRecord("d1") => table[bid["d1"]].status = "queued")
    /\ [][(FailedWithRecord("d1") /\ PollFinds("d1")) =>
            /\ sresp'.statusCode = 200
            /\ sresp'.body.status = "queued"
       ]_vars

\* C20 amended: the record is written before any repository step and never
\* rolled back, so a dispatch that stored it and ended in 500 leaves it
\* stored with status queued. A poll for its buildId that finds the record
\* is answered 200, with status queued as long as no listed run on
\* build/{buildId} is in progress or completed. That is always so when the
\* dispatch failed before the branch existed; after a failed commit the
\* branch exists and a run on it is reported.
C20_FailedDispatchLeavesRecord ==
    /\ [](FailedWithRecord("d1") =>
            /\ table[bid["d1"]].status = "queued"
            /\ NoFileFor(bid["d1"])
            /\ NoBranchFor(bid["d1"]) => RunsOf(bid["d1"]) = {})
    /\ [][
           /\ table' # table => (bpc["d1"] = "put" /\ bpc'["d1"] \in {"getRef", "done"})
           /\ \A b \in AllIds : table[b].present => table'[b] = table[b]
           /\ (FailedWithRecord("d1") /\ PollFinds("d1")) =>
                /\ sresp'.statusCode = 200
                /\ sresp'.body.buildId = bid["d1"]
                /\ sresp'.body.status \in {"queued", "building", "completed", "failed"}
                /\ (\A i \in RunsOf(bid["d1"]) : runs[i].status = "queued") =>
                        sresp'.body.status = "queued"
                /\ NoBranchFor(bid["d1"]) =>
                        /\ sresp'.body.status = "queued"
                        /\ sresp'.body.workflow.status = "unknown"
       ]_vars

\* C20 witness: the base commit could not be resolved, the dispatch was
\* answered 500 with its record stored and no branch, and the poll for its
\* buildId was answered 200 with status queued
C20_Witness ==
    /\ FailedWithRecord("d1")
    /\ ghConfig
    /\ NoBranchFor(bid["d1"])
    /\ spc = "done"
    /\ slisted
    /\ sid = bid["d1"]
    /\ sresp.statusCode = 200
    /\ sresp.body.status = "queued"

----------------------------------------------------------------------------
(* C21 *)

\* the runs on the branch of build id among the newest 50 of the repository
OnPage(id) ==
    {i \in 1..Len(runs) : i <= PerPage /\ runs[i].head_branch = <<"build", id>>}

\* the status a poll of build id reports from the present listing
FromListing(id) ==
    IF OnPage(id) = {} THEN "queued"
    ELSE LET i == CHOOSE j \in OnPage(id) : \A k \in OnPage(id) : j <= k
         IN IF runs[i].status = "completed"
              THEN (IF runs[i].conclusion = "success" THEN "completed" ELSE "failed")
            ELSE IF runs[i].status = "in_progress" THEN "building"
            ELSE "queued"

\* the handler is answering a poll for the build of d1 after its listing call
AnswersFollowed == spc = "list" /\ spc' = "done" /\ sid = bid["d1"]

\* C21: over successive polls of a build with a stored record, each answer
\* is computed from the listing of that moment (the first run on
\* build/{buildId} among the newest 50) and the stored status alone; the
\* polls write nothing. Whatever status an earlier poll reported, completed
\* and failed included, a poll reports queued when its listing fails or no
\* run of the branch is among the newest 50, and building when the newest
\* run of the branch is in progress.
C21_PollsAreMemoryless ==
    [][
       /\ spc' # spc => (table' = table /\ runs' = runs)
       /\ AnswersFollowed =>
            /\ sresp'.statusCode = 200
            /\ table[sid].status = "queued"
            /\ sresp'.body.status \in {FromListing(sid), "queued"}
            /\ StatusListOutcome(FALSE) =>
                    /\ sresp'.body.status = "queued"
                    /\ sresp'.body.workflow.status = "unknown"
            /\ OnPage(sid) = {} =>
                    /\ sresp'.body.status = "queued"
                    /\ sresp'.body.workflow.status = "unknown"
            /\ (StatusListOutcome(TRUE) /\ FromListing(sid) = "building") =>
                    sresp'.body.status = "building"
            /\ StatusListOutcome(TRUE) => sresp'.body.status = FromListing(sid)
      ]_vars

\* C21 witness: the client had read completed; since then a page of runs on
\* other branches pushed the completed run of the branch to place 51, and
\* the poll was answered queued
C21_Witness ==
    /\ seen = "completed"
    /\ spc = "done"
    /\ sid = bid["d1"]
    /\ sresp.statusCode = 200
    /\ sresp.body.status = "queued"
    /\ OnPage(sid) = {}
    /\ Len(runs) = PerPage + 1
    /\ runs[PerPage + 1].head_branch = BranchName(sid)
    /\ runs[PerPage + 1].status = "completed"
    /\ runs[PerPage + 1].conclusion = "success"

\* the client had read failed from the only run of the repository, which
\* is still the only one; the listing failed and the poll was answered queued
C21_SeenFailedThenQueued ==
    /\ seen = "failed"
    /\ spc = "done"
    /\ sid = bid["d1"]
    /\ sresp.statusCode = 200
    /\ sresp.body.status = "queued"
    /\ Len(runs) = 1
    /\ OnPage(sid) = {1}

\* the client had read completed; a newer run on the branch is in
\* progress and the poll was answered building
C21_SeenCompletedThenBuilding ==
    /\ seen = "completed"
    /\ spc = "done"
    /\ sid = bid["d1"]
    /\ sresp.statusCode = 200
    /\ sresp.body.status = "building"
    /\ Len(runs) = 2
    /\ OnPage(sid) = {1, 2}
    /\ runs[1].status = "in_progress"
    /\ runs[2].status = "completed" /\ runs[2].conclusion = "success"

\* the state SpecPolls starts from, as the dispatch reaches it
AcceptedState ==
    /\ tableName /\ ghConfig
    /\ bpc["d1"] = "done" /\ bresp["d1"] = BuildAccepted("d1")
    /\ table[bid["d1"]] = PutItem(bid["d1"], breq["d1"].body)
    /\ refs[BranchName(bid["d1"])] = BaseCommits[1]
    /\ files[BranchName(bid["d1"])].present
    /\ dispatched = {BranchName(bid["d1"])}
    /\ runs = <<>>
    /\ usedIds = {bid["d1"]}
    /\ spc = "idle" /\ vpc = "idle" /\ seen = NotSeen

=============================================================================
